---- MODULE Spec2Model ----
(***************************************************************************)
(* managerui: the key grabber (ev_open, ev_read, ev_close) and the         *)
(* dispatch loop of main() in src/main.c, as a state machine.              *)
(*                                                                         *)
(* The process is sequential; pc is the position of main().  The device    *)
(* (what read() returns), the result of open(), daemon() and system() are  *)
(* the environment and are chosen nondeterministically.                    *)
(***************************************************************************)
EXTENDS Integers, Sequences, FiniteSets, TLC

(* ---------------- bounds of the model ---------------- *)

\* Unscripted reads the device may deliver in one run.
MaxReads == 4

(* ---------------- constants of the program ---------------- *)

EV_ERROR == 65536
EV_UP == 131072
EV_HOLD == 262144
EV_EBLOCK == 1
EV_EFILE == 2

\* <linux/input.h>: event classes, and sizeof(struct input_event) on LP64:
\* timestamp 16 bytes, type 2, code 2, value 4.
EV_SYN == 0
EV_KEY == 1
EV_MSC == 4
RecSize == 24

\* <errno.h>
EINTR == 4
EAGAIN == 11
EWOULDBLOCK == 11
ENOENT == 2
EBADF == 9
ENODEV == 19

EXIT_SUCCESS == 0
EXIT_FAILURE == 1
\* exitStatus while main() has not returned.
NotExited == -1

KEY_BRIGHTNESSDOWN == 224
KEY_BRIGHTNESSUP == 225

\* The descriptor open() returns on success (0..2 are the standard streams).
DeviceFd == 3

(* ---------------- sample input sets ---------------- *)

\* Values of argc: no argument vector, the program name alone, one argument.
Argcs == {0, 1, 2}
Types == {EV_SYN, EV_KEY, EV_MSC}
Codes == {0, 1, 2, KEY_BRIGHTNESSDOWN, KEY_BRIGHTNESSUP, 999, 65535}
Values == {0, 1, 2, 3}
Records == [type : Types, code : Codes, value : Values]
\* Byte counts of a short read that still delivers at least one byte.
PartialSizes == {1, RecSize - 1}
\* errno of a read() that returns -1.
ReadErrnos == {EINTR, EAGAIN, ENODEV}
\* errno values system() may leave behind.
SystemErrnos == {EINTR, ENOENT}
\* What system() may return: the wait status of a command that succeeded,
\* that failed with exit code 1, that the shell did not find (exit code
\* 127), and -1 when no child could be created.
SystemResults == {0, 256, 32512, -1}
\* sysret while no result of system() is at hand.
NoCommand == -2
\* The buffer of ev_read before read() has written to it.
Unread == [type |-> EV_SYN, code |-> 0, value |-> 0]

(* ---------------- bit operations on uint32_t ---------------- *)

\* a & b and a | b on 16-bit halves.
RECURSIVE And16(_, _)
And16(a, b) ==
    IF a = 0 \/ b = 0 THEN 0
    ELSE (a % 2) * (b % 2) + 2 * And16(a \div 2, b \div 2)

RECURSIVE Or16(_, _)
Or16(a, b) ==
    IF a = 0 THEN b
    ELSE IF b = 0 THEN a
    ELSE (IF a % 2 = 1 \/ b % 2 = 1 THEN 1 ELSE 0) + 2 * Or16(a \div 2, b \div 2)

\* a & b and a | b on 32-bit values: the low half and the high half.
BitAnd(a, b) == And16(a % 65536, b % 65536) + 65536 * And16(a \div 65536, b \div 65536)
BitOr(a, b) == Or16(a % 65536, b % 65536) + 65536 * Or16(a \div 65536, b \div 65536)

EV_HASFLAG(code, flag) == BitAnd(code, flag)
\* Mutant of EV_GETCODE: the mask covers one byte only.
EV_GETCODEByte(code) == BitAnd(code, 255)

EV_GETCODE(code) == BitAnd(code, 65535)
EV_GETERROR(code) == EV_GETCODE(code)
EV_FAIL(code) == EV_HASFLAG(code, EV_ERROR)

\* The two error values ev_read returns.
WouldBlock == BitOr(EV_EBLOCK, EV_ERROR)
Fatal == BitOr(EV_EFILE, EV_ERROR)

(* ---------------- ev_read ---------------- *)

\* Line 79: the test on read()'s result n.
ReadFailed(n) == n < 1

\* Mutant of Transient: EAGAIN and EWOULDBLOCK forgotten.
TransientOnlyEintr(e) == e = EINTR

\* Line 80: the errno values that make a failed read a blocking one.
Transient(e) == e = EINTR \/ e = EAGAIN \/ e = EWOULDBLOCK

\* Mutant of Decode: the flags of values 2 and 0 exchanged.
DecodeFlagsSwapped(r) ==
    IF r.type = EV_KEY
    THEN IF r.value = 1 THEN r.code
         ELSE IF r.value = 2 THEN BitOr(r.code, EV_UP)
         ELSE BitOr(r.code, EV_HOLD)
    ELSE BitOr(EV_EBLOCK, EV_ERROR)

\* Mutant of Decode: only value 0 is a release, other values block.
DecodeStrict(r) ==
    IF r.type = EV_KEY
    THEN IF r.value = 1 THEN r.code
         ELSE IF r.value = 2 THEN BitOr(r.code, EV_HOLD)
         ELSE IF r.value = 0 THEN BitOr(r.code, EV_UP)
         ELSE BitOr(EV_EBLOCK, EV_ERROR)
    ELSE BitOr(EV_EBLOCK, EV_ERROR)

\* Mutant of Decode: the class of the record is not tested.
DecodeAnyClass(r) ==
    IF r.value = 1 THEN r.code
    ELSE IF r.value = 2 THEN BitOr(r.code, EV_HOLD)
    ELSE BitOr(r.code, EV_UP)

\* Mutant of Decode: a record of another class returns its code with EV_ERROR.
DecodeErrorWithCode(r) ==
    IF r.type = EV_KEY
    THEN IF r.value = 1 THEN r.code
         ELSE IF r.value = 2 THEN BitOr(r.code, EV_HOLD)
         ELSE BitOr(r.code, EV_UP)
    ELSE BitOr(r.code, EV_ERROR)

\* Lines 89-98: the value returned for the record r in the buffer.
Decode(r) ==
    IF r.type = EV_KEY
    THEN IF r.value = 1 THEN r.code
         ELSE IF r.value = 2 THEN BitOr(r.code, EV_HOLD)
         ELSE BitOr(r.code, EV_UP)
    ELSE BitOr(EV_EBLOCK, EV_ERROR)

\* Lines 75-99: read() returned n with errno e and left r in the buffer.
\* ret is the value returned, closes tells whether close(fd) was called.
ev_read(n, e, r) ==
    IF ReadFailed(n)
    THEN IF Transient(e)
         THEN [ret |-> BitOr(EV_EBLOCK, EV_ERROR), closes |-> FALSE]
         ELSE [ret |-> BitOr(EV_EFILE, EV_ERROR), closes |-> TRUE]
    ELSE [ret |-> Decode(r), closes |-> FALSE]

(* ---------------- main ---------------- *)

\* Mutant of ArgsMissing: off by one.
ArgsMissingOffByOne(n) == n < 1

\* Line 115.
ArgsMissing(n) == n < 2

\* Mutant of OpenFailed: the result of ev_open is not tested.
OpenFailedNever(fd) == FALSE

\* Line 121: the test on the descriptor ev_open returned.
OpenFailed(fd) == fd < 0

\* Mutant of LoopNext: every error value continues the loop.
LoopNextNoBreak(e) ==
    IF EV_FAIL(e) # 0 THEN "read" ELSE "switch"

\* Mutant of LoopNext: continue and break exchanged.
LoopNextSwapped(e) ==
    IF EV_FAIL(e) # 0
    THEN IF EV_GETERROR(e) = EV_EBLOCK THEN "close" ELSE "read"
    ELSE "switch"

\* Mutant of LoopNext: every error value leaves the loop.
LoopNextBreakOnError(e) ==
    IF EV_FAIL(e) # 0 THEN "close" ELSE "switch"

\* Lines 133-138: where the loop goes after ev_read returned e.
LoopNext(e) ==
    IF EV_FAIL(e) # 0
    THEN IF EV_GETERROR(e) = EV_EBLOCK THEN "read" ELSE "close"
    ELSE "switch"

\* Mutant of Command: the two commands exchanged.
CommandSwapped(e) ==
    IF EV_GETCODE(e) = KEY_BRIGHTNESSUP
    THEN IF EV_HASFLAG(e, EV_UP) # 0 THEN "dec" ELSE "none"
    ELSE IF EV_GETCODE(e) = KEY_BRIGHTNESSDOWN
    THEN IF EV_HASFLAG(e, EV_UP) # 0 THEN "inc" ELSE "none"
    ELSE "none"

\* Mutant of Command: EV_UP is not tested.
CommandAnyStatus(e) ==
    IF EV_GETCODE(e) = KEY_BRIGHTNESSUP THEN "inc"
    ELSE IF EV_GETCODE(e) = KEY_BRIGHTNESSDOWN THEN "dec"
    ELSE "none"

\* Lines 139-150: the command the switch runs for the event e.
Command(e) ==
    IF EV_GETCODE(e) = KEY_BRIGHTNESSUP
    THEN IF EV_HASFLAG(e, EV_UP) # 0 THEN "inc" ELSE "none"
    ELSE IF EV_GETCODE(e) = KEY_BRIGHTNESSDOWN
    THEN IF EV_HASFLAG(e, EV_UP) # 0 THEN "dec" ELSE "none"
    ELSE "none"

(* ---------------- the device ---------------- *)

\* What one read() on the open descriptor can do: fail with an errno, return
\* 0 (end of file, errno untouched), deliver a whole record, or deliver only
\* the first n bytes of one.  After a short read the fields at offsets >= n
\* are the uninitialised stack of ev_read: indeterminate, so every record of
\* Records is a possible content of the buffer.
ReadOutcomes ==
    {[n |-> -1, err |-> e, buf |-> Unread] : e \in ReadErrnos}
    \cup {[n |-> 0, err |-> 0, buf |-> Unread]}
    \cup {[n |-> s, err |-> 0, buf |-> r] : s \in PartialSizes \cup {RecSize}, r \in Records}

\* read() on a closed descriptor.
ClosedOutcomes == {[n |-> -1, err |-> EBADF, buf |-> Unread]}

\* A scripted run of the device: the results the decoder has to produce.
Entry(st, c) == [st |-> st, code |-> c]
Scenario ==
    << Entry("Pressed", KEY_BRIGHTNESSUP), Entry("Held", KEY_BRIGHTNESSUP),
       Entry("Held", KEY_BRIGHTNESSUP), Entry("Released", KEY_BRIGHTNESSUP),
       Entry("Sync", 0), Entry("Pressed", 999), Entry("Released", 999),
       Entry("Fatal", 0) >>

\* The read outcome o, decoded as e, is what the script entry x asks for.
Matches(x, o, e) ==
    CASE x.st = "Pressed" -> o.n = RecSize /\ e = x.code
      [] x.st = "Held" -> o.n = RecSize /\ e = x.code + EV_HOLD
      [] x.st = "Released" -> o.n = RecSize /\ e = x.code + EV_UP
      [] x.st = "Sync" -> o.n = RecSize /\ o.buf.type = EV_SYN
      [] x.st = "Fatal" -> o.n = -1 /\ e = EV_EFILE + EV_ERROR

(* ---------------- state ---------------- *)

VARIABLES
    pc,          \* position of main(): args, open, opened, read, fail, switch, break, close, exit
    argc,        \* main's argc
    keygrabber,  \* main's keygrabber
    ev,          \* main's ev
    errno,       \* the C library's errno
    fdOpen,      \* whether the descriptor DeviceFd is open
    nread,       \* ev_read: what read() returned (0 outside ev_read)
    rec,         \* ev_read: the buffer after read() (Unread outside ev_read)
    stderr,      \* messages written to standard error
    exitStatus,  \* value main() returned, NotExited before
    nOpen,       \* calls of open()
    nDaemon,     \* calls of daemon()
    nReads,      \* calls of read()
    nClose,      \* calls of close()
    nInc,        \* system("setbacklight %+10") calls
    nDec,        \* system("setbacklight %-10") calls
    lastCmd,     \* what the last pass through the switch ran
    sysret,      \* what system() has just returned (NoCommand outside the switch)
    nRelUp, nRelDown, \* Released(225) and Released(224) values ev_read returned
    script,      \* what is left of the scripted run
    scripted,    \* whether the run is the scripted one
    rptKey, rptPhase, rptHeld, rptCmds   \* key-repeat sequence in progress

vars == << pc, argc, keygrabber, ev, errno, fdOpen, nread, rec, stderr,
           exitStatus, nOpen, nDaemon, nReads, nClose, nInc, nDec, lastCmd, sysret,
           nRelUp, nRelDown, script, scripted, rptKey, rptPhase, rptHeld, rptCmds >>

env == << argc, script, scripted >>
counters == << nOpen, nDaemon, nReads, nClose, nInc, nDec, lastCmd, sysret, nRelUp, nRelDown >>
repeat == << rptKey, rptPhase, rptHeld, rptCmds >>
reader == << nread, rec >>

\* main's ev is not initialised; it is written before it is first read.
Init ==
    /\ pc = "args"
    /\ argc \in Argcs
    /\ keygrabber = -1
    /\ ev \in {0, Fatal}
    /\ errno = 0
    /\ fdOpen = FALSE
    /\ nread = 0
    /\ rec = Unread
    /\ stderr = << >>
    /\ exitStatus = NotExited
    /\ nOpen = 0 /\ nDaemon = 0 /\ nReads = 0 /\ nClose = 0
    /\ nInc = 0 /\ nDec = 0 /\ lastCmd = "none" /\ sysret = NoCommand
    /\ nRelUp = 0 /\ nRelDown = 0
    /\ scripted \in BOOLEAN
    /\ script = IF scripted THEN Scenario ELSE << >>
    /\ rptKey = 0 /\ rptPhase = "idle" /\ rptHeld = 0 /\ rptCmds = 0

(* ---------------- startup, lines 115-129 ---------------- *)

\* Lines 115-118.
Usage ==
    /\ pc = "args"
    /\ ArgsMissing(argc)
    /\ stderr' = Append(stderr, "usage: managerui /dev/input/eventX")
    /\ exitStatus' = EXIT_FAILURE
    /\ pc' = "exit"
    /\ UNCHANGED << keygrabber, ev, errno, fdOpen, reader, env, counters, repeat >>

ArgsGiven ==
    /\ pc = "args"
    /\ ~ArgsMissing(argc)
    /\ pc' = "open"
    /\ UNCHANGED << keygrabber, ev, errno, fdOpen, reader, stderr, exitStatus,
                    env, counters, repeat >>

\* Line 120, ev_open (lines 33-36): open() succeeds or fails.
Open ==
    /\ pc = "open"
    /\ \E ok \in BOOLEAN :
          /\ keygrabber' = IF ok THEN DeviceFd ELSE -1
          /\ fdOpen' = ok
          /\ errno' = IF ok THEN errno ELSE ENOENT
    /\ nOpen' = nOpen + 1
    /\ pc' = "opened"
    /\ UNCHANGED << ev, reader, stderr, exitStatus, env, repeat,
                    nDaemon, nReads, nClose, nInc, nDec, lastCmd, sysret, nRelUp, nRelDown >>

\* Lines 121-124.
OpenError ==
    /\ pc = "opened"
    /\ OpenFailed(keygrabber)
    /\ stderr' = Append(stderr, "Cannot open event file")
    /\ exitStatus' = EXIT_FAILURE
    /\ pc' = "exit"
    /\ UNCHANGED << keygrabber, ev, errno, fdOpen, reader, env, counters, repeat >>

\* Mutant of Daemonize: the loop is entered without calling daemon().
DaemonizeSkipped ==
    /\ pc = "opened"
    /\ ~OpenFailed(keygrabber)
    /\ pc' = "read"
    /\ UNCHANGED << keygrabber, ev, errno, fdOpen, reader, stderr, exitStatus, env,
                    repeat, counters >>

\* Line 126, daemon(0, 0) returns 0.
Daemonize ==
    /\ pc = "opened"
    /\ ~OpenFailed(keygrabber)
    /\ nDaemon' = nDaemon + 1
    /\ pc' = "read"
    /\ UNCHANGED << keygrabber, ev, errno, fdOpen, reader, stderr, exitStatus, env,
                    repeat, nOpen, nReads, nClose, nInc, nDec, lastCmd, sysret, nRelUp, nRelDown >>

\* Lines 126-129, daemon(0, 0) fails (fork: EAGAIN).
DaemonError ==
    /\ pc = "opened"
    /\ ~OpenFailed(keygrabber)
    /\ nDaemon' = nDaemon + 1
    /\ errno' = EAGAIN
    /\ stderr' = Append(stderr, "Cannot fork into background")
    /\ exitStatus' = EXIT_FAILURE
    /\ pc' = "exit"
    /\ UNCHANGED << keygrabber, ev, fdOpen, reader, env, repeat,
                    nOpen, nReads, nClose, nInc, nDec, lastCmd, sysret, nRelUp, nRelDown >>

(* ---------------- the loop, lines 131-151 ---------------- *)

\* The reads the device can answer now: the head of the script while the
\* scripted run lasts, anything afterwards (at most MaxReads times).
CanRead(o, e) ==
    IF script # << >>
    THEN Matches(Head(script), o, e)
    ELSE nReads < MaxReads + (IF scripted THEN Len(Scenario) ELSE 0)

\* What a value returned by ev_read stands for (lines 43-54): the error code
\* when EV_ERROR is set, else the key status given by EV_UP and EV_HOLD.
Status(e) ==
    IF EV_FAIL(e) # 0
    THEN IF EV_GETERROR(e) = EV_EBLOCK THEN "WouldBlock"
         ELSE IF EV_GETERROR(e) = EV_EFILE THEN "Fatal"
         ELSE "Invalid"
    ELSE LET up == EV_HASFLAG(e, EV_UP) # 0
             hold == EV_HASFLAG(e, EV_HOLD) # 0
         IN  IF up /\ hold THEN "Invalid"
             ELSE IF up THEN "Released"
             ELSE IF hold THEN "Held"
             ELSE "Pressed"

BacklightKeys == {KEY_BRIGHTNESSDOWN, KEY_BRIGHTNESSUP}

\* The key-repeat sequence Pressed(k), Held(k)*, Released(k) being followed,
\* after ev_read returned a value of status st and code k.  Error values do
\* not interrupt a sequence.
RepeatAfter(st, k) ==
    IF st \in {"WouldBlock", "Fatal"} THEN << rptKey, rptPhase, rptHeld, rptCmds >>
    ELSE IF st = "Pressed" /\ k \in BacklightKeys THEN << k, "down", 0, 0 >>
    ELSE IF st = "Held" /\ rptPhase = "down" /\ k = rptKey
         THEN << rptKey, "down", rptHeld + 1, rptCmds >>
    ELSE IF st = "Released" /\ rptPhase = "down" /\ k = rptKey
         THEN << rptKey, "up", rptHeld, rptCmds >>
    ELSE << 0, "idle", 0, 0 >>

\* Line 132: ev = ev_read(keygrabber), lines 75-99.
LoopRead ==
    /\ pc = "read"
    /\ \E o \in (IF fdOpen THEN ReadOutcomes ELSE ClosedOutcomes) :
          LET e == IF o.n = -1 THEN o.err ELSE errno
              r == ev_read(o.n, e, o.buf)
              st == Status(r.ret)
              k == EV_GETCODE(r.ret)
              rel == st = "Released"
              rp == RepeatAfter(st, k)
          IN  /\ CanRead(o, r.ret)
              /\ nread' = o.n
              /\ rec' = o.buf
              /\ errno' = e
              /\ ev' = r.ret
              /\ fdOpen' = IF r.closes THEN FALSE ELSE fdOpen
              /\ nClose' = IF r.closes THEN nClose + 1 ELSE nClose
              /\ nRelUp' = IF rel /\ k = KEY_BRIGHTNESSUP THEN nRelUp + 1 ELSE nRelUp
              /\ nRelDown' = IF rel /\ k = KEY_BRIGHTNESSDOWN THEN nRelDown + 1 ELSE nRelDown
              /\ rptKey' = rp[1]
              /\ rptPhase' = rp[2]
              /\ rptHeld' = rp[3]
              /\ rptCmds' = rp[4]
    /\ nReads' = nReads + 1
    /\ script' = IF script # << >> THEN Tail(script) ELSE script
    /\ pc' = "fail"
    /\ UNCHANGED << argc, scripted, keygrabber, stderr, exitStatus,
                    nOpen, nDaemon, nInc, nDec, lastCmd, sysret >>

\* Lines 133-138: continue, break, or go on to the switch.  ev_read has
\* returned: its buffer and read()'s result are gone.
LoopFail ==
    /\ pc = "fail"
    /\ pc' = LoopNext(ev)
    /\ nread' = 0
    /\ rec' = Unread
    /\ UNCHANGED << keygrabber, ev, errno, fdOpen, stderr, exitStatus,
                    env, counters, repeat >>

\* Mutant of Dispatch: a command that did not succeed ends the loop.
DispatchChecksResult ==
    /\ pc = "switch"
    /\ LET c == Command(ev) IN
          /\ lastCmd' = c
          /\ nInc' = IF c = "inc" THEN nInc + 1 ELSE nInc
          /\ nDec' = IF c = "dec" THEN nDec + 1 ELSE nDec
          /\ errno' \in IF c = "none" THEN {errno} ELSE {errno} \cup SystemErrnos
          /\ sysret' \in IF c = "none" THEN {sysret} ELSE SystemResults
          /\ rptCmds' = IF rptPhase = "idle" THEN 0
                        ELSE IF c = "none" THEN rptCmds ELSE rptCmds + 1
          /\ rptPhase' = IF rptPhase = "up" THEN "done" ELSE rptPhase
          /\ pc' = IF c # "none" /\ sysret' # 0 THEN "close" ELSE "break"
    /\ UNCHANGED << keygrabber, ev, fdOpen, reader, stderr, exitStatus, env,
                    rptKey, rptHeld, nOpen, nDaemon, nReads, nClose, nRelUp, nRelDown >>

\* Lines 139-150: the case of the switch.  system() returns any of its
\* results and may leave any errno behind.
Dispatch ==
    /\ pc = "switch"
    /\ LET c == Command(ev) IN
          /\ lastCmd' = c
          /\ nInc' = IF c = "inc" THEN nInc + 1 ELSE nInc
          /\ nDec' = IF c = "dec" THEN nDec + 1 ELSE nDec
          /\ errno' \in IF c = "none" THEN {errno} ELSE {errno} \cup SystemErrnos
          /\ sysret' \in IF c = "none" THEN {sysret} ELSE SystemResults
          /\ rptCmds' = IF rptPhase = "idle" THEN 0
                        ELSE IF c = "none" THEN rptCmds ELSE rptCmds + 1
          /\ rptPhase' = IF rptPhase = "up" THEN "done" ELSE rptPhase
    /\ pc' = "break"
    /\ UNCHANGED << keygrabber, ev, fdOpen, reader, stderr, exitStatus, env,
                    rptKey, rptHeld, nOpen, nDaemon, nReads, nClose, nRelUp, nRelDown >>

\* Lines 143, 147, 149: break out of the switch, back to line 132.  What
\* system() returned is discarded.
SwitchBreak ==
    /\ pc = "break"
    /\ sysret' = NoCommand
    /\ pc' = "read"
    /\ UNCHANGED << keygrabber, ev, errno, fdOpen, reader, stderr, exitStatus, env,
                    repeat, nOpen, nDaemon, nReads, nClose, nInc, nDec, lastCmd,
                    nRelUp, nRelDown >>

\* Mutant of Terminate: the loop's end is reported as a failure.
TerminateFailure ==
    /\ pc = "close"
    /\ nClose' = nClose + 1
    /\ fdOpen' = FALSE
    /\ errno' = IF fdOpen THEN errno ELSE EBADF
    /\ exitStatus' = EXIT_FAILURE
    /\ pc' = "exit"
    /\ UNCHANGED << keygrabber, ev, reader, stderr, env, repeat,
                    nOpen, nDaemon, nReads, nInc, nDec, lastCmd, sysret, nRelUp, nRelDown >>

\* Lines 153-154: ev_close (lines 105-108) and return EXIT_SUCCESS.
\* close() on a descriptor that is already closed fails with EBADF.
Terminate ==
    /\ pc = "close"
    /\ nClose' = nClose + 1
    /\ fdOpen' = FALSE
    /\ errno' = IF fdOpen THEN errno ELSE EBADF
    /\ exitStatus' = EXIT_SUCCESS
    /\ pc' = "exit"
    /\ UNCHANGED << keygrabber, ev, reader, stderr, env, repeat,
                    nOpen, nDaemon, nReads, nInc, nDec, lastCmd, sysret, nRelUp, nRelDown >>

Next ==
    \/ Usage
    \/ ArgsGiven
    \/ Open
    \/ OpenError
    \/ Daemonize
    \/ DaemonError
    \/ LoopRead
    \/ LoopFail
    \/ Dispatch
    \/ SwitchBreak
    \/ Terminate

Spec == Init /\ [][Next]_vars

\* main() is sequential: every step that is not a blocking call (read(),
\* system()) is taken once it is reached.
LiveSpec ==
    /\ Spec
    /\ WF_vars(LoopFail)
    /\ WF_vars(SwitchBreak)
    /\ WF_vars(Terminate)

TypeOK ==
    /\ pc \in {"args", "open", "opened", "read", "fail", "switch", "break", "close", "exit"}
    /\ exitStatus \in {NotExited, EXIT_SUCCESS, EXIT_FAILURE}
    /\ nread \in -1..RecSize

(* ======================= claims ======================= *)

\* ev_read has just returned after read() delivered one whole record.
FullRecordRead == pc = "fail" /\ nread = RecSize

\* C1: for a whole key-class record with code c, ev_read returns code c with
\* the status of the record's value: 1 Pressed, 2 Held, 0 Released.
C1_KeyRecordDecoded ==
    (FullRecordRead /\ rec.type = EV_KEY /\ rec.value \in {0, 1, 2}) =>
        /\ EV_GETCODE(ev) = rec.code
        /\ rec.value = 1 => Status(ev) = "Pressed"
        /\ rec.value = 2 => Status(ev) = "Held"
        /\ rec.value = 0 => Status(ev) = "Released"

\* A repeat record of the largest 16-bit code has been decoded as Held.
C1_Witness ==
    /\ FullRecordRead /\ rec.type = EV_KEY /\ rec.value = 2 /\ rec.code = 65535
    /\ Status(ev) = "Held" /\ EV_GETCODE(ev) = 65535

\* C2, as claimed: a whole key-class record with a value other than 0, 1, 2
\* is decoded as WouldBlock.
C2_UnknownValueBlocks ==
    (FullRecordRead /\ rec.type = EV_KEY /\ rec.value \notin {0, 1, 2}) =>
        Status(ev) = "WouldBlock"

\* C2, amended: a whole key-class record with a value other than 1 and 2 is
\* decoded as Released(code) with the handle left open; the loop then goes on
\* to the switch, which runs the increase command for code 225, the decrease
\* command for code 224 and nothing for any other code, and stays in the loop.
C2_UnknownValueReleased ==
    /\ [](  (FullRecordRead /\ rec.type = EV_KEY /\ rec.value \notin {1, 2}) =>
               (Status(ev) = "Released" /\ EV_GETCODE(ev) = rec.code /\ fdOpen) )
    /\ [][ (FullRecordRead /\ rec.type = EV_KEY /\ rec.value \notin {1, 2}) =>
               (pc' = "switch" /\ fdOpen' /\ ev' = ev) ]_vars
    /\ [][ (pc = "switch" /\ Status(ev) = "Released") =>
               /\ pc' = "break"
               /\ nInc' = nInc + (IF EV_GETCODE(ev) = 225 THEN 1 ELSE 0)
               /\ nDec' = nDec + (IF EV_GETCODE(ev) = 224 THEN 1 ELSE 0) ]_vars

\* A key record of code 225 and value 3 has been decoded as Released(225).
C2_Witness ==
    /\ FullRecordRead /\ rec.type = EV_KEY /\ rec.value = 3 /\ rec.code = 225
    /\ Status(ev) = "Released"

\* C3: a whole record of any other class is decoded as WouldBlock; the handle
\* stays open, and the loop reads again without running a command.
C3_OtherClassBlocks ==
    /\ [](  (FullRecordRead /\ rec.type # EV_KEY) =>
               (Status(ev) = "WouldBlock" /\ fdOpen /\ exitStatus = NotExited) )
    /\ [][ (FullRecordRead /\ rec.type # EV_KEY) =>
               (pc' = "read" /\ fdOpen' /\ nInc' = nInc /\ nDec' = nDec /\ nClose' = nClose) ]_vars

\* A non-key record with code 225 and value 0 has been read.
C3_Witness ==
    /\ FullRecordRead /\ rec.type = EV_MSC /\ rec.code = 225 /\ rec.value = 0
    /\ Status(ev) = "WouldBlock" /\ fdOpen

\* ev_read has just returned after read() failed with -1.
ReadError == pc = "fail" /\ nread = -1

\* C4: a failed read with errno EINTR, EWOULDBLOCK or EAGAIN gives WouldBlock,
\* leaves the handle open and the loop reads again; with any other errno it
\* gives Fatal, the handle is closed by ev_read, and the loop is left.
C4_FailedRead ==
    /\ [](  (ReadError /\ errno \in {EINTR, EWOULDBLOCK, EAGAIN}) =>
               (Status(ev) = "WouldBlock" /\ fdOpen /\ nClose = 0) )
    /\ [][ (ReadError /\ errno \in {EINTR, EWOULDBLOCK, EAGAIN}) =>
               (pc' = "read" /\ fdOpen') ]_vars
    /\ [](  (ReadError /\ errno \notin {EINTR, EWOULDBLOCK, EAGAIN}) =>
               (Status(ev) = "Fatal" /\ ~fdOpen /\ nClose = 1) )
    /\ [][ (ReadError /\ errno \notin {EINTR, EWOULDBLOCK, EAGAIN}) =>
               pc' = "close" ]_vars
    /\ [][ pc = "close" => (pc' = "exit" /\ nReads' = nReads) ]_vars

\* After at least one earlier read, a read has failed with ENODEV and
\* ev_read has closed the handle.
C4_Witness ==
    /\ ReadError /\ errno = ENODEV /\ Status(ev) = "Fatal" /\ ~fdOpen
    /\ nReads >= 2

\* C5, as claimed: a read of fewer bytes than one record is never decoded as
\* a key event; it gives WouldBlock or Fatal.
C5_ShortReadNotDecoded ==
    (pc = "fail" /\ nread \in 0..(RecSize - 1)) => Status(ev) \in {"WouldBlock", "Fatal"}

\* ev_read returned e while the switch has not yet handled it.
Pending(e, k) ==
    IF pc \in {"fail", "switch"} /\ Status(e) = "Released" /\ EV_GETCODE(e) = k THEN 1 ELSE 0

\* C6: Released(224) runs the decrease command once and nothing else,
\* Released(225) runs the increase command once and nothing else, and the
\* number of runs of each command is the number of such values returned.
C6_DispatchCounts ==
    /\ [][ (pc = "switch" /\ Status(ev) = "Released" /\ EV_GETCODE(ev) = 224) =>
               (nDec' = nDec + 1 /\ nInc' = nInc /\ lastCmd' = "dec") ]_vars
    /\ [][ (pc = "switch" /\ Status(ev) = "Released" /\ EV_GETCODE(ev) = 225) =>
               (nInc' = nInc + 1 /\ nDec' = nDec /\ lastCmd' = "inc") ]_vars
    /\ [](  /\ nDec + Pending(ev, 224) = nRelDown
            /\ nInc + Pending(ev, 225) = nRelUp )

\* One release of 224 and two of 225 have been dispatched by the end of a run.
C6_Witness ==
    /\ pc = "exit" /\ exitStatus = EXIT_SUCCESS
    /\ nRelDown = 1 /\ nDec = 1 /\ nRelUp = 2 /\ nInc = 2

\* C7: Pressed and Held values of 224 and 225, and values of any other code,
\* run no command; a sequence Pressed(k), Held(k)*, Released(k) of a
\* backlight key runs exactly one command however many Held values it has.
C7_OnlyReleaseDispatches ==
    /\ [][ (pc = "switch" /\ ~(Status(ev) = "Released" /\ EV_GETCODE(ev) \in {224, 225})) =>
               (nInc' = nInc /\ nDec' = nDec /\ lastCmd' = "none") ]_vars
    /\ [](  /\ rptPhase \in {"down", "up"} => rptCmds = 0
            /\ rptPhase = "done" => rptCmds = 1 )

\* A sequence with two Held values has been dispatched.
C7_Witness ==
    /\ rptPhase = "done" /\ rptHeld = 2 /\ rptKey = 224
    /\ rptCmds = 1 /\ nDec = 1 /\ nInc = 0

\* C8: the scripted run ends with one increase, no decrease, and the loop
\* left right after the Fatal entry, with no further read.
C8_Scenario ==
    /\ (scripted /\ nReads >= Len(Scenario)) =>
          /\ nReads = Len(Scenario)
          /\ pc \in {"fail", "close", "exit"}
          /\ Status(ev) = "Fatal"
          /\ nInc = 1 /\ nDec = 0
    /\ (scripted /\ pc \in {"close", "exit"} /\ nDaemon = 1 /\ exitStatus # EXIT_FAILURE) =>
          /\ script = << >>
          /\ nReads = Len(Scenario)

\* The scripted run has been played to its end.
C8_Witness ==
    /\ scripted /\ pc = "exit" /\ exitStatus = EXIT_SUCCESS
    /\ script = << >> /\ nReads = 8 /\ nInc = 1 /\ nDec = 0

\* C9: after a read failed with a non-transient errno the process leaves the
\* loop, has the handle closed and returns 0; and it returns 0 only after
\* ev_read returned Fatal (open and daemon having succeeded).
C9_GracefulExit ==
    /\ (ReadError /\ errno \notin {EINTR, EWOULDBLOCK, EAGAIN})
          ~> (pc = "exit" /\ exitStatus = EXIT_SUCCESS /\ ~fdOpen)
    /\ []( exitStatus = EXIT_SUCCESS =>
             (Status(ev) = "Fatal" /\ nOpen = 1 /\ nDaemon = 1 /\ nReads >= 1 /\ ~fdOpen) )

\* The process has returned 0 after a run with a dispatched command.
C9_Witness ==
    /\ pc = "exit" /\ exitStatus = EXIT_SUCCESS /\ ~fdOpen
    /\ errno = EBADF /\ nInc = 1

\* C10: with argc < 2 the usage message is written to standard error and main
\* returns EXIT_FAILURE; no open, daemon, read, close or command happens.
C10_MissingArgument ==
    argc < 2 =>
        /\ pc \in {"args", "exit"}
        /\ nOpen = 0 /\ nDaemon = 0 /\ nReads = 0 /\ nClose = 0 /\ nInc = 0 /\ nDec = 0
        /\ ~fdOpen /\ keygrabber = -1
        /\ pc = "exit" =>
              /\ exitStatus = EXIT_FAILURE
              /\ stderr = << "usage: managerui /dev/input/eventX" >>
        /\ pc = "args" => (exitStatus = NotExited /\ stderr = << >>)

\* main has returned after being started with no argument.
C10_Witness ==
    /\ argc = 1 /\ pc = "exit" /\ exitStatus = EXIT_FAILURE
    /\ Len(stderr) = 1 /\ nOpen = 0

\* main has returned EXIT_FAILURE after being given an argument.
StartupFailed == argc >= 2 /\ pc = "exit" /\ exitStatus = EXIT_FAILURE

\* C11: when open fails, or daemon fails after a successful open, one error
\* message is written and main returns EXIT_FAILURE at once: open and daemon
\* are not called again, nothing is read and no command runs; after a failed
\* open daemon is not called at all.
C11_StartupFailure ==
    /\ [](  StartupFailed =>
               /\ nOpen = 1 /\ nReads = 0 /\ nInc = 0 /\ nDec = 0 /\ nClose = 0
               /\ keygrabber < 0 => (nDaemon = 0 /\ stderr = << "Cannot open event file" >>)
               /\ keygrabber >= 0 => (nDaemon = 1 /\ stderr = << "Cannot fork into background" >>) )
    /\ [](  (nOpen = 1 /\ keygrabber < 0) =>
               (pc \in {"opened", "exit"} /\ nDaemon = 0 /\ nReads = 0 /\ ~fdOpen) )
    /\ [][ (pc = "opened" /\ keygrabber < 0) =>
               (pc' = "exit" /\ exitStatus' = EXIT_FAILURE /\ nOpen' = nOpen) ]_vars
    /\ [][ (pc = "opened" /\ nDaemon' = 1 /\ pc' = "exit") =>
               (exitStatus' = EXIT_FAILURE /\ nReads' = 0) ]_vars

\* main has returned after daemon() failed.
C11_Witness ==
    /\ StartupFailed /\ keygrabber = DeviceFd /\ nDaemon = 1
    /\ stderr = << "Cannot fork into background" >> /\ nReads = 0

\* C12: daemon() is called at most once, only after open succeeded and
\* before the first read; every read follows a daemon() call that returned 0.
C12_DaemonOnceBeforeLoop ==
    /\ [](  /\ nDaemon <= 1
            /\ nDaemon = 1 => (nOpen = 1 /\ keygrabber >= 0)
            /\ nReads > 0 => (nDaemon = 1 /\ exitStatus # EXIT_FAILURE)
            /\ pc \in {"read", "fail", "switch", "break", "close"} => nDaemon = 1 )
    /\ [][ nDaemon' # nDaemon =>
               (pc = "opened" /\ nDaemon = 0 /\ nReads = 0 /\ nReads' = 0 /\ fdOpen) ]_vars

\* The loop has read four times after the one daemon() call.
C12_Witness ==
    /\ nDaemon = 1 /\ nOpen = 1 /\ nReads = 4 /\ pc = "fail"

\* C13: a value returned by ev_read stands for exactly one status: EV_UP and
\* EV_HOLD are never both set, neither is set together with EV_ERROR, no
\* other high bit is set, and with EV_ERROR the low 16 bits are EV_EBLOCK (1)
\* or EV_EFILE (2).
C13_OneStatus ==
    nReads > 0 =>
        /\ ~(EV_HASFLAG(ev, EV_UP) # 0 /\ EV_HASFLAG(ev, EV_HOLD) # 0)
        /\ EV_HASFLAG(ev, EV_ERROR) # 0 =>
              /\ EV_HASFLAG(ev, EV_UP) = 0
              /\ EV_HASFLAG(ev, EV_HOLD) = 0
              /\ ev % 65536 \in {1, 2}
        /\ ev \div 65536 \in {0, 1, 2, 4}
        /\ Status(ev) \in {"Pressed", "Held", "Released", "WouldBlock", "Fatal"}

\* ev_read has returned Held for the largest code, all low bits set.
C13_Witness ==
    /\ pc = "fail" /\ nReads > 0
    /\ EV_HASFLAG(ev, EV_HOLD) # 0 /\ ev % 65536 = 65535

\* C14: the loop is left only from the test of a Fatal value; a WouldBlock
\* value leads back to the read and a Pressed, Held or Released value to the
\* switch and then to the read, the handle being open all along.
C14_OnlyFatalTerminates ==
    /\ [][ (pc \in {"read", "fail", "switch", "break"}
               /\ pc' \notin {"read", "fail", "switch", "break"}) =>
               (pc = "fail" /\ ev \div 65536 = 1 /\ ev % 65536 = 2 /\ pc' = "close") ]_vars
    /\ [][ (pc = "fail" /\ ev \div 65536 = 1 /\ ev % 65536 = 1) =>
               (pc' = "read" /\ fdOpen /\ fdOpen' /\ exitStatus' = NotExited) ]_vars
    /\ [][ (pc = "fail" /\ ev \div 65536 \in {0, 2, 4}) =>
               (pc' = "switch" /\ fdOpen /\ fdOpen' /\ exitStatus' = NotExited) ]_vars
    /\ [][ pc = "switch" => (pc' = "break" /\ fdOpen /\ fdOpen') ]_vars
    /\ [][ pc = "break" => (pc' = "read" /\ fdOpen /\ fdOpen') ]_vars
    /\ [](  (pc \in {"close", "exit"} /\ nReads > 0) => (ev \div 65536 = 1 /\ ev % 65536 = 2) )
    /\ [](  pc \in {"read", "switch", "break"} =>
               (fdOpen /\ exitStatus = NotExited /\ nClose = 0) )

\* The loop is back at the read after three reads, the last one WouldBlock,
\* and no command has run.
C14_Witness ==
    /\ pc = "read" /\ nReads = 3 /\ ev = 65537 /\ fdOpen
    /\ nInc = 0 /\ nDec = 0 /\ nRelUp = 0 /\ nRelDown = 0

\* C15: what system() returns has no effect on the loop: whatever it is, the
\* loop goes back to the read with the same open handle, and main's return
\* value does not depend on it.
C15_CommandOutcomeIgnored ==
    /\ [][ pc = "switch" =>
               (pc' = "break" /\ fdOpen /\ fdOpen' /\ keygrabber' = keygrabber
                /\ exitStatus' = NotExited /\ ev' = ev) ]_vars
    /\ [][ pc = "break" =>
               (pc' = "read" /\ fdOpen /\ fdOpen' /\ keygrabber' = keygrabber
                /\ exitStatus' = NotExited /\ ev' = ev) ]_vars
    /\ [](  sysret # NoCommand =>
               (pc = "break" /\ fdOpen /\ keygrabber = DeviceFd /\ exitStatus = NotExited) )
    /\ [](  (pc = "exit" /\ nInc + nDec > 0) =>
               (exitStatus = EXIT_SUCCESS /\ ev \div 65536 = 1 /\ ev % 65536 = 2) )

\* system() has returned the status of a command the shell did not find.
C15_Witness ==
    /\ pc = "break" /\ sysret = 32512 /\ lastCmd = "dec" /\ nDec = 1
    /\ fdOpen /\ exitStatus = NotExited

\* C16, as claimed: on a run that started and terminated, close() has been
\* called once on the handle.
C16_ClosedOnce ==
    (pc = "exit" /\ exitStatus = EXIT_SUCCESS) => nClose = 1

\* C17, as claimed: a read() that returns 0 without setting errno makes
\* ev_read return Fatal, whatever errno was left by earlier calls.
C17_EndOfFileIsFatal ==
    (pc = "fail" /\ nread = 0) => (ev \div 65536 = 1 /\ ev % 65536 = 2)

\* C18: once ev_read has closed the descriptor nothing is read and no command
\* runs: main only tests the Fatal value, leaves the loop and returns.
C18_NoUseAfterClose ==
    /\ [][ nClose > 0 => (nReads' = nReads /\ nInc' = nInc /\ nDec' = nDec) ]_vars
    /\ [](  nClose > 0 =>
               (pc \in {"fail", "close", "exit"} /\ ~fdOpen
                /\ ev \div 65536 = 1 /\ ev % 65536 = 2) )
    /\ [](  pc \in {"read", "switch", "break"} => fdOpen )

\* The loop has been left after ev_read closed the descriptor, a command
\* having run before.
C18_Witness ==
    /\ pc = "close" /\ nClose = 1 /\ ~fdOpen /\ nInc = 1 /\ nReads = 2

\* ev_read has just returned after read() filled a key-class record in.
KeyRecordRead == pc = "fail" /\ nread >= 1 /\ rec.type = EV_KEY

\* C19: for a key record of 16-bit code c, EV_GETCODE of the value returned
\* is c, what is added to c is one of the flag combinations above bit 15
\* without EV_ERROR, EV_FAIL is 0, and the loop goes to the switch; so codes
\* 1 and 2 are not taken for EV_EBLOCK and EV_EFILE.
C19_PackingRoundTrip ==
    /\ [](  KeyRecordRead =>
               /\ EV_GETCODE(ev) = rec.code
               /\ EV_GETERROR(ev) = rec.code
               /\ ev - rec.code \in {0, EV_UP, EV_HOLD}
               /\ ev % 65536 = rec.code
               /\ EV_FAIL(ev) = 0 )
    /\ [][ KeyRecordRead => (pc' = "switch" /\ ev' = ev /\ fdOpen') ]_vars

\* A release record of code 2 has been decoded.
C19_Witness ==
    /\ KeyRecordRead /\ nread = RecSize /\ rec.code = 2 /\ rec.value = 0
    /\ ev = 2 + EV_UP

====
